---- MODULE Spec2Model ----
(***************************************************************************)
(* Model of the DM notification helpers of the moderation bot:             *)
(*   helpers/dm_manager.py   DMManager (cooldown gate, send_dm, composers) *)
(*   helpers/notification.py send_moderation_dm, the appeal workflow and   *)
(*                           format_duration                               *)
(* Every await of the Python code is an interleaving point: an action      *)
(* runs a coroutine from one await to the next.                            *)
(***************************************************************************)
EXTENDS Integers, Sequences, FiniteSets, Bags, TLC

VARIABLES
    \* DMManager (dm_manager.py)
    now,            \* datetime.datetime.now().timestamp(), in seconds
    dm_cooldowns,   \* self.dm_cooldowns: recipient -> time of the last gate pass
    calls,          \* the bag of coroutines suspended at an await
    lastPass,       \* history: recipient -> time of the last call that passed the gate
    rejects,        \* history: recipient -> number of calls rejected since its last pass
    obs,            \* history: what the last step did
    \* the composition of a moderation notice
    \* (of rendered and composed, the one the last step did not write is reset)
    rendered,       \* history: the duration text the last step rendered
    composed,       \* history: the notice the last step composed, its arguments and embed
    \* the appeal workflow (notification.py)
    notice,         \* the moderation notice and what its AppealButton view holds
    submit,         \* AppealModal.on_submit: the await it is suspended at
    view,           \* the ModeratorResponse view of the appeal message
    handlers,       \* the bag of approve/deny callbacks suspended at an await
    presses,        \* number of Approve/Deny presses so far
    fx,             \* history: the external calls that succeeded, counted
    lastActor       \* history: the actor whose press the last step served

dmVars == <<now, dm_cooldowns, calls, lastPass, rejects, obs>>
composeVars == <<rendered, composed>>
appealVars == <<notice, submit, view, handlers, presses, fx, lastActor>>
vars == <<dmVars, composeVars, appealVars>>

----------------------------------------------------------------------------
(* Bounds of the model *)

\* the clock runs over 0..MaxTime (seconds)
MaxTime == 8
\* number of coroutines that may be suspended at an await at the same time
MaxInFlight == 2
\* durations of up to MaxUnits (+1 second) of each unit are rendered
MaxUnits == 9
\* number of Approve/Deny presses on the appeal message
MaxPresses == 3
\* rejected calls are counted up to MaxRejects
MaxRejects == 1

(* Program constants *)

BaseCooldown == 5
LongMessageExtra == 2
EmbedExtra == 1
LongMessageLimit == 200
Minute == 60
Hour == 3600
Day == 86400
WelcomeTextLen == 48
WarningTextLen == 40
NoProfileTextLen == 29
ProfileTextLen == 32
ModerationTextLen == 51

----------------------------------------------------------------------------
(* Inputs *)

\* canonical (string) recipient identifiers, the keys of dm_cooldowns
Recipients == {"1", "2"}

\* user_id: Union[int, str]; the same digits may come as an int or as a str
UserIds == [form : {"int", "str"}, digits : Recipients]

\* str(user_id)
Str(uid) == uid.digits

\* lengths of the message text handed to send_dm
MsgLens == {0, 200, 201}

\* lengths of a guild name
GuildNameLens == {10, 160}

DMManagerOps == {"send_dm", "send_welcome_message", "send_warning_notification",
                 "send_profile_info", "send_moderation_notification"}

\* the (message length, embed given) pairs each DMManager operation hands to send_dm
Shapes(op) ==
    CASE op = "send_dm" ->
            {<<l, e>> : l \in MsgLens, e \in BOOLEAN}
      [] op = "send_welcome_message" ->
            {<<WelcomeTextLen + g, TRUE>> : g \in GuildNameLens}
      [] op = "send_warning_notification" ->
            {<<WarningTextLen, TRUE>>}
      [] op = "send_profile_info" ->
            {<<NoProfileTextLen, FALSE>>, <<ProfileTextLen, TRUE>>}
      [] op = "send_moderation_notification" ->
            {<<ModerationTextLen + g, TRUE>> : g \in GuildNameLens}

----------------------------------------------------------------------------
(* The cooldown gate of send_dm *)

CooldownTimeFromLimit(len, embed) ==
    BaseCooldown
      + (IF len >= LongMessageLimit THEN LongMessageExtra ELSE 0)
      + (IF embed THEN EmbedExtra ELSE 0)

\* cooldown_time = 5; += 2 if message and len(message) > 200; += 1 if embed
CooldownTime(len, embed) ==
    BaseCooldown
      + (IF len > LongMessageLimit THEN LongMessageExtra ELSE 0)
      + (IF embed THEN EmbedExtra ELSE 0)

WithinWindowInclusive(elapsed, window) == elapsed <= window

\* current_time - self.dm_cooldowns[user_id] < cooldown_time
WithinWindow(elapsed, window) == elapsed < window

OnCooldown(r, t, len, embed) ==
    /\ r \in DOMAIN dm_cooldowns
    /\ WithinWindow(t - dm_cooldowns[r], CooldownTime(len, embed))

RecordOnReturn(d, k, v) == [x \in DOMAIN d \cup {k} |-> IF x = k THEN v ELSE d[x]]

\* return False of the gate (lines 48-50): self.dm_cooldowns is not written
KeepRecord(d, k, v) == d

PutLost(d, k, v) == d

\* d[k] = v on a dict
Put(d, k, v) == [x \in DOMAIN d \cup {k} |-> IF x = k THEN v ELSE d[x]]

----------------------------------------------------------------------------
(* Exception handlers.  An exception is "Forbidden" (discord.Forbidden) or  *)
(* "Other"; a handler yields the value returned, "continue" when the code   *)
(* goes on after the handler, or "raised" when the exception escapes.       *)

SendDmExceptForbiddenOnly(exc) == IF exc = "Forbidden" THEN "False" ELSE "raised"

\* except discord.Forbidden: return False / except Exception: return False
SendDmExcept(exc) == IF exc = "Forbidden" THEN "False" ELSE "False"

PrefExceptPropagate(exc) == SendDmExcept(exc)

\* except Exception as e: print("Error checking DM preferences")
PrefExcept(exc) == "continue"

StatExceptPropagate(exc) == SendDmExcept(exc)

\* except Exception as e: print("Error updating DM stats")
StatExcept(exc) == "continue"

\* send_moderation_dm: except discord.Forbidden: return False, and the outer
\* except Exception: return False
NoticeExcept(exc) == IF exc = "Forbidden" THEN "False" ELSE "False"

----------------------------------------------------------------------------
(* Observation of the last step, for stating the properties *)

NoObs ==
    [step |-> "none", op |-> "none", via |-> "none", r |-> "none",
     gate |-> "none", len |-> 0, embed |-> FALSE, cooldown_time |-> 0, t |-> 0,
     hadPass |-> FALSE, prevPass |-> 0, rejects |-> 0,
     sendReq |-> FALSE,
     ended |-> FALSE, res |-> "none", outcome |-> "none",
     attempted |-> FALSE, wrote |-> FALSE, resolved |-> FALSE,
     userOut |-> "none", prefOut |-> "none", sendOut |-> "none", statOut |-> "none"]

\* a coroutine suspended at an await: the function whose await it is (via), the
\* recipient, the await (pc) and whether it has written the cooldown record
Call(via, r, pc, wrote) == [via |-> via, r |-> r, pc |-> pc, wrote |-> wrote]

\* where a coroutine goes after a step: to its next await or to its return
Await(pc, sendReq, userOut, prefOut, sendOut) ==
    [pc |-> pc, sendReq |-> sendReq, res |-> "none", outcome |-> "none",
     resolved |-> TRUE, attempted |-> sendReq,
     userOut |-> userOut, prefOut |-> prefOut, sendOut |-> sendOut, statOut |-> "none"]

Return(res, outcome, resolved, attempted, userOut, prefOut, sendOut, statOut) ==
    [pc |-> "end", sendReq |-> FALSE, res |-> res, outcome |-> outcome,
     resolved |-> resolved, attempted |-> attempted,
     userOut |-> userOut, prefOut |-> prefOut, sendOut |-> sendOut, statOut |-> statOut]

----------------------------------------------------------------------------
(* send_dm from one await to the next.  The outcome of an external          *)
(* capability is "absent" when the storage capability is not there          *)
(* (hasattr(self.bot, 'storage') and self.bot.storage is false).            *)

\* the stat increment is over ("ok", "raise" or "absent"); return True
FromStat(statOut) ==
    IF statOut = "raise" /\ StatExcept("Other") # "continue"
    THEN {Return(StatExcept("Other"), "failed", TRUE, TRUE, "none", "none", "ok", statOut)}
    ELSE {Return("True", "delivered", TRUE, TRUE, "none", "none", "ok", statOut)}

\* user.send is over ("ok", "forbidden" or "error")
FromSend(sendOut) ==
    CASE sendOut = "forbidden" ->
            {Return(SendDmExcept("Forbidden"), "blocked", TRUE, TRUE,
                    "none", "none", sendOut, "none")}
      [] sendOut = "error" ->
            {Return(SendDmExcept("Other"), "failed", TRUE, TRUE,
                    "none", "none", sendOut, "none")}
      [] sendOut = "ok" ->
            {Await("stat", FALSE, "none", "none", sendOut)} \cup FromStat("absent")

\* the preference check is over: "null" no profile, "on"/"off" the
\* dm_notifications preference, "raise", or "absent"
FromPrefs(userOut, prefOut) ==
    CASE prefOut = "off" ->
            {Return("False", "optedOut", TRUE, FALSE, userOut, prefOut, "none", "none")}
      [] prefOut = "raise" /\ PrefExcept("Other") # "continue" ->
            {Return(PrefExcept("Other"), "failed", TRUE, FALSE, userOut, prefOut, "none", "none")}
      [] OTHER ->
            \* await user.send(...): the request is made
            {Await("send", TRUE, userOut, prefOut, "none")}

\* the user lookup is over ("user", "null" or "raise")
FromUser(userOut) ==
    CASE userOut = "null" ->
            {Return("False", "unresolved", FALSE, FALSE, userOut, "none", "none", "none")}
      [] userOut = "raise" ->
            {Return(SendDmExcept("Other"), "failed", FALSE, FALSE, userOut, "none", "none", "none")}
      [] userOut = "user" ->
            {Await("prefs", FALSE, userOut, "none", "none")} \cup FromPrefs(userOut, "absent")

\* the gate was passed: self.bot.get_user (the cache) finds the user, finds
\* nothing (fetch_user is awaited) or raises
FromGate ==
    {Await("fetch", FALSE, "none", "none", "none")} \cup FromUser("user") \cup FromUser("raise")

\* user.send of send_moderation_dm is over (lines 203-211)
FromNoticeSend(sendOut) ==
    CASE sendOut = "ok" ->
            {Return("True", "delivered", TRUE, TRUE, "none", "none", sendOut, "none")}
      [] sendOut = "forbidden" ->
            {Return(NoticeExcept("Forbidden"), "blocked", TRUE, TRUE,
                    "none", "none", sendOut, "none")}
      [] sendOut = "error" ->
            {Return(NoticeExcept("Other"), "failed", TRUE, TRUE,
                    "none", "none", sendOut, "none")}

\* send_moderation_dm up to its await: the embed is built (which may raise) and
\* user.send is requested
FromNotice ==
    {Await("send", TRUE, "none", "none", "none"),
     Return(NoticeExcept("Other"), "failed", TRUE, FALSE, "none", "none", "none", "none")}

\* the coroutine c takes continuation k; rest is the bag of the other coroutines
Continue(rest, c, k, o) ==
    /\ k.pc # "end" => BagCardinality(rest) < MaxInFlight
    /\ calls' = IF k.pc = "end" THEN rest
                ELSE rest (+) SetToBag({Call(c.via, c.r, k.pc, c.wrote)})
    /\ obs' = [o EXCEPT !.via = c.via, !.r = c.r, !.wrote = c.wrote,
                        !.sendReq = k.sendReq,
                        !.ended = (k.pc = "end"), !.res = k.res, !.outcome = k.outcome,
                        !.attempted = k.attempted, !.resolved = k.resolved,
                        !.userOut = k.userOut, !.prefOut = k.prefOut,
                        !.sendOut = k.sendOut, !.statOut = k.statOut]
    /\ UNCHANGED <<composeVars, appealVars>>

\* send_dm up to its first await (lines 32-60), called by the composer op
Begin(op, uid, len, embed) ==
    LET r == Str(uid)
        o == [NoObs EXCEPT !.step = "begin", !.op = op, !.len = len, !.embed = embed,
                           !.cooldown_time = CooldownTime(len, embed), !.t = now,
                           !.hadPass = (r \in DOMAIN lastPass),
                           !.rejects = rejects[r],
                           !.prevPass = IF r \in DOMAIN lastPass THEN lastPass[r] ELSE 0]
    IN IF OnCooldown(r, now, len, embed)
       THEN \* return False  # On cooldown
            /\ dm_cooldowns' = KeepRecord(dm_cooldowns, r, now)
            /\ UNCHANGED <<now, lastPass>>
            /\ Continue(calls, Call("send_dm", r, "begin", FALSE),
                        Return("False", "suppressed", FALSE, FALSE,
                               "none", "none", "none", "none"),
                        [o EXCEPT !.gate = "reject"])
       ELSE \* self.dm_cooldowns[user_id] = current_time
            /\ dm_cooldowns' = Put(dm_cooldowns, r, now)
            /\ lastPass' = Put(lastPass, r, now)
            /\ UNCHANGED now
            /\ \E k \in FromGate :
                  Continue(calls, Call("send_dm", r, "begin", TRUE), k,
                           [o EXCEPT !.gate = "pass"])

\* send_dm(user_id, message, embed) called directly
SendDm ==
    /\ obs = NoObs
    /\ \E uid \in UserIds, s \in Shapes("send_dm") : Begin("send_dm", uid, s[1], s[2])
    /\ UNCHANGED rejects

\* send_dm called directly, the calls rejected since the recipient's last pass
\* counted (up to MaxRejects)
SendDmCounting ==
    /\ obs = NoObs
    /\ \E uid \in UserIds, s \in Shapes("send_dm") : Begin("send_dm", uid, s[1], s[2])
    /\ rejects' = [rejects EXCEPT ![obs'.r] =
                      IF obs'.gate # "reject" THEN 0
                      ELSE IF @ < MaxRejects THEN @ + 1 ELSE @]

\* the embed is built and send_dm is awaited with the welcome text
SendWelcomeMessage ==
    /\ obs = NoObs
    /\ \E uid \in UserIds, s \in Shapes("send_welcome_message") :
          Begin("send_welcome_message", uid, s[1], s[2])
    /\ UNCHANGED rejects

SendWarningNotification ==
    /\ obs = NoObs
    /\ \E uid \in UserIds, s \in Shapes("send_warning_notification") :
          Begin("send_warning_notification", uid, s[1], s[2])
    /\ UNCHANGED rejects

\* without profile data the plain text goes out with no embed
SendProfileInfo ==
    /\ obs = NoObs
    /\ \E uid \in UserIds, s \in Shapes("send_profile_info") :
          Begin("send_profile_info", uid, s[1], s[2])
    /\ UNCHANGED rejects

SendModerationNotification ==
    /\ obs = NoObs
    /\ \E uid \in UserIds, s \in Shapes("send_moderation_notification") :
          Begin("send_moderation_notification", uid, s[1], s[2])
    /\ UNCHANGED rejects

\* notification.send_moderation_dm(user, ...) up to its await (lines 31-204)
SendModerationDm ==
    /\ obs = NoObs
    /\ \E r \in Recipients, k \in FromNotice :
       /\ UNCHANGED <<now, dm_cooldowns, lastPass, rejects>>
       /\ Continue(calls, Call("send_moderation_dm", r, "begin", FALSE), k,
                   [NoObs EXCEPT !.step = "begin", !.op = "send_moderation_dm",
                                 !.t = now, !.embed = TRUE])

\* what may come back from the await the coroutine c is suspended at
Resumptions(c) ==
    CASE c.pc = "fetch" -> UNION {FromUser(u) : u \in {"user", "null", "raise"}}
      [] c.pc = "prefs" -> UNION {FromPrefs("user", p) : p \in {"null", "on", "off", "raise"}}
      [] c.pc = "send" ->
            IF c.via = "send_moderation_dm"
            THEN UNION {FromNoticeSend(s) : s \in {"ok", "forbidden", "error"}}
            ELSE UNION {FromSend(s) : s \in {"ok", "forbidden", "error"}}
      [] c.pc = "stat" -> UNION {FromStat(s) : s \in {"ok", "raise"}}

\* an awaited external capability completes and the coroutine runs on to its
\* next await or to its return
Resume ==
    /\ obs = NoObs
    /\ \E c \in BagToSet(calls) :
       \E k \in Resumptions(c) :
          /\ UNCHANGED <<now, dm_cooldowns, lastPass, rejects>>
          /\ Continue(calls (-) SetToBag({c}), c, k,
                      [NoObs EXCEPT !.step = "resume", !.t = now,
                                    !.gate = IF c.wrote THEN "pass" ELSE "none"])

\* datetime.datetime.now().timestamp() advances
Tick ==
    /\ obs = NoObs
    /\ now < MaxTime
    /\ now' = now + 1
    /\ UNCHANGED <<dm_cooldowns, lastPass, rejects, calls, obs, composeVars, appealVars>>

\* the observation of the last step is dropped (history only: no program step
\* happens while an observation stands)
Settle ==
    /\ obs # NoObs
    /\ obs' = NoObs
    /\ UNCHANGED <<now, dm_cooldowns, lastPass, rejects, calls, composeVars, appealVars>>

----------------------------------------------------------------------------
(* Duration text of a moderation notice.  A text is <<value, unit name>>.   *)

NoRender == [fn |-> "none", seconds |-> 0, text |-> <<0, "none">>]

NoComposed ==
    [fn |-> "none", action_type |-> "none", duration |-> <<>>, reason |-> <<>>,
     description |-> "none", duration_str |-> <<>>, reason_field |-> "none",
     end_field |-> <<>>]

\* the durations tried: around the multiples of each unit
DurationSamples ==
    {d \in {u * k + off : u \in {1, Minute, Hour, Day}, k \in 1..MaxUnits, off \in {-1, 0, 1}} :
        d > 0}

Plural(value, singular, plural) == IF value # 1 THEN plural ELSE singular

\* notification.format_duration(seconds)
format_duration(seconds) ==
    IF seconds < Minute THEN <<seconds, Plural(seconds, "second", "seconds")>>
    ELSE IF seconds < Hour
         THEN <<seconds \div Minute, Plural(seconds \div Minute, "minute", "minutes")>>
    ELSE IF seconds < Day
         THEN <<seconds \div Hour, Plural(seconds \div Hour, "hour", "hours")>>
    ELSE <<seconds \div Day, Plural(seconds \div Day, "day", "days")>>

\* duration_text of the timeout branch of DMManager.send_moderation_notification
TimeoutDurationText(duration) ==
    IF duration < Minute THEN <<duration, "seconds">>
    ELSE IF duration < Hour THEN <<duration \div Minute, "minutes">>
    ELSE IF duration < Day THEN <<duration \div Hour, "hours">>
    ELSE <<duration \div Day, "days">>

\* send_moderation_dm renders the duration of a ban, timeout or mute
FormatDuration ==
    \E d \in DurationSamples :
       /\ rendered' = [fn |-> "format_duration", seconds |-> d, text |-> format_duration(d)]
       /\ composed' = NoComposed
       /\ UNCHANGED <<dmVars, appealVars>>

\* send_moderation_notification renders the duration of a timeout
FormatTimeoutDuration ==
    \E d \in DurationSamples :
       /\ rendered' = [fn |-> "send_moderation_notification", seconds |-> d,
                       text |-> TimeoutDurationText(d)]
       /\ composed' = NoComposed
       /\ UNCHANGED <<dmVars, appealVars>>

----------------------------------------------------------------------------
(* The appeal workflow of send_moderation_dm *)

\* action_type as the caller passes it
RawActionTypes == {"timeout", "Timeout", "mute", "voice_mute", "voice_deafen", "ban", "kick"}

\* str.lower() on the action types above
Lower(s) == IF s = "Timeout" THEN "timeout" ELSE s

\* the identities that may press a button of the appeal message
Actors == {"m1", "m2"}

\* the branch of the description that send_moderation_dm renders (lines 62-92)
RenderBranch(action_type) ==
    CASE Lower(action_type) = "ban" -> "banned"
      [] Lower(action_type) = "kick" -> "kicked"
      [] Lower(action_type) = "timeout" \/ Lower(action_type) = "mute" -> "timed out"
      [] Lower(action_type) = "voice_mute" -> "muted in voice"
      [] Lower(action_type) = "voice_unmute" -> "unmuted in voice"
      [] Lower(action_type) = "voice_deafen" -> "deafened in voice"
      [] Lower(action_type) = "voice_undeafen" -> "undeafened in voice"
      [] OTHER -> "action"

\* the call by which approve undoes the action (lines 167-172): "timeout" is
\* user.timeout(None), "mute" user.edit(mute=False), "deafen" user.edit(deafen=False)
Reversal(action_type) ==
    CASE action_type = "timeout" -> "timeout"
      [] action_type = "voice_mute" -> "mute"
      [] action_type = "voice_deafen" -> "deafen"
      [] OTHER -> "none"

AuthorizedAnyone(actor, mod_id) == TRUE

\* not (btn_interaction.user.id != self.mod_id)
Authorized(actor, mod_id) == actor = mod_id

NoNotice ==
    [pc |-> "none", action_type |-> "none", moderator |-> "none", moderator_id |-> "none",
     mod_id |-> "none"]
NoView == [exists |-> FALSE, mod_id |-> "none", disabled |-> FALSE, shown |-> FALSE]
NoFx == [timeout |-> 0, mute |-> 0, deafen |-> 0, acked |-> 0, notified |-> 0,
         rejected |-> 0, confirmed |-> 0, errors |-> 0,
         appeals |-> 0, unresolved |-> 0, faults |-> 0]

Handler(btn, actor, pc, undo) == [btn |-> btn, actor |-> actor, pc |-> pc, undo |-> undo]

\* user.send(embed=embed, view=AppealButton(moderator.id if moderator else None))
\* succeeds (line 204); the moderator_id parameter is not read
DeliverNotice ==
    \E at \in RawActionTypes, moderator \in Actors \cup {"none"},
       moderator_id \in Actors \cup {"none"} :
       /\ notice.pc = "none"
       /\ notice' = [pc |-> "sent", action_type |-> at,
                     moderator |-> moderator, moderator_id |-> moderator_id,
                     mod_id |-> IF moderator # "none" THEN moderator ELSE "none"]
       /\ lastActor' = "none"
       /\ UNCHANGED <<submit, view, handlers, presses, fx, dmVars, composeVars>>

\* the appellant submits the appeal text: on_submit runs to
\* await interaction.client.fetch_user(self.mod_id)
SubmitAppeal ==
    /\ notice.pc = "sent"
    /\ submit = "idle"
    /\ submit' = "fetch"
    /\ lastActor' = "none"
    /\ UNCHANGED <<notice, view, handlers, presses, fx, dmVars, composeVars>>

\* how an await of on_submit can end: fetch_user(None) raises; fetch_user of an
\* identity returns the user ("ok"), raises NotFound when there is no such user
\* ("notfound") or fails otherwise ("raise"); a send goes through or raises
SubmitOutcomes(pc, mod_id) ==
    IF pc = "fetch"
    THEN IF mod_id = "none" THEN {"raise"} ELSE {"ok", "notfound", "raise"}
    ELSE {"ok", "raise"}

\* on_submit runs on from an await (lines 145-198); an exception inside the try
\* leads to the error response.  fx counts the appeal messages sent to a
\* moderator, the confirmation and error responses, the lookups that found no
\* such user, and the failures of a call that was given an identity (faults).
SubmitStep ==
    \E out \in SubmitOutcomes(submit, notice.mod_id) :
       /\ submit \in {"fetch", "send", "confirm", "error"}
       /\ submit' = CASE submit = "fetch" -> IF out = "ok" THEN "send" ELSE "error"
                      [] submit = "send" -> IF out = "ok" THEN "confirm" ELSE "error"
                      [] submit = "confirm" -> IF out = "ok" THEN "done" ELSE "error"
                      [] submit = "error" -> "done"
       /\ view' = IF submit = "send" /\ out = "ok"
                  THEN [exists |-> TRUE, mod_id |-> notice.mod_id,
                        disabled |-> FALSE, shown |-> FALSE]
                  ELSE view
       /\ fx' = IF out = "ok"
                THEN CASE submit = "send" -> [fx EXCEPT !.appeals = @ + 1]
                       [] submit = "confirm" -> [fx EXCEPT !.confirmed = @ + 1]
                       [] submit = "error" -> [fx EXCEPT !.errors = @ + 1]
                       [] OTHER -> fx
                ELSE IF out = "notfound" THEN [fx EXCEPT !.unresolved = @ + 1]
                ELSE IF submit = "fetch" /\ notice.mod_id = "none" THEN fx
                ELSE [fx EXCEPT !.faults = @ + 1]
       /\ lastActor' = "none"
       /\ UNCHANGED <<notice, handlers, presses, dmVars, composeVars>>

\* an actor presses Approve or Deny: the callback runs to its first await
\* (lines 161-168 and 180-185); the buttons can be pressed until the edited
\* message shows them disabled
Press ==
    \E actor \in Actors, btn \in {"approve", "deny"} :
       /\ view.exists /\ ~view.shown
       /\ presses < MaxPresses
       /\ presses' = presses + 1
       /\ handlers' = handlers (+) SetToBag({
             IF ~Authorized(actor, view.mod_id)
             THEN Handler(btn, actor, "reject", "none")
             ELSE IF btn = "approve" /\ Reversal(notice.action_type) # "none"
             THEN Handler(btn, actor, "reverse", Reversal(notice.action_type))
             ELSE Handler(btn, actor, "ack", "none")})
       /\ lastActor' = actor
       /\ UNCHANGED <<notice, submit, view, fx, dmVars, composeVars>>

\* an await of a callback completes ("ok") or raises; an exception ends the
\* callback, as approve and deny catch nothing
HandlerStep ==
    \E h \in BagToSet(handlers), out \in {"ok", "raise"} :
       LET rest == handlers (-) SetToBag({h})
           next == CASE h.pc = "reverse" -> "ack"
                     [] h.pc = "ack" -> "notify"
                     [] h.pc = "notify" -> "edit"
                     [] OTHER -> "end"
       IN /\ handlers' = IF out = "ok" /\ next # "end"
                         THEN rest (+) SetToBag({Handler(h.btn, h.actor, next, h.undo)})
                         ELSE rest
          /\ fx' = IF out # "ok" THEN fx
                   ELSE CASE h.pc = "reject" -> [fx EXCEPT !.rejected = @ + 1]
                          [] h.pc = "reverse" -> [fx EXCEPT ![h.undo] = @ + 1]
                          [] h.pc = "ack" -> [fx EXCEPT !.acked = @ + 1]
                          [] h.pc = "notify" -> [fx EXCEPT !.notified = @ + 1]
                          [] OTHER -> fx
          \* self.disable_all_buttons() after the appellant was notified, and
          \* btn_interaction.message.edit(view=self)
          /\ view' = IF out # "ok" THEN view
                     ELSE IF h.pc = "notify" THEN [view EXCEPT !.disabled = TRUE]
                     ELSE IF h.pc = "edit" THEN [view EXCEPT !.shown = TRUE]
                     ELSE view
          /\ lastActor' = h.actor
          /\ UNCHANGED <<notice, submit, presses, dmVars, composeVars>>

----------------------------------------------------------------------------
(* The embed of a moderation notice.  An Optional argument is <<>> for None *)
(* and <<v>> for the value v; a part of the embed that is not there is <<>>. *)

\* action_type as the caller passes it
NoticeKinds == RawActionTypes \cup {"unmute", "warning"}

\* duration: None, zero, negative and positive seconds
NoticeDurations ==
    {<<>>} \cup {<<d>> : d \in {0, -1, -Minute, 1, Minute + Minute \div 2, Hour, Day + Day}}

\* reason: None, the empty string, a text
NoticeReasons == {<<>>, <<"">>, <<"spam">>}

\* the truth value Python gives an Optional[int] in a condition
Truthy(x) == Len(x) = 1 /\ x[1] # 0

\* the truth value Python gives an Optional[str] in a condition
TruthyStr(x) == Len(x) = 1 /\ x[1] # ""

\* reason or "No reason provided"
ReasonField(reason) == IF TruthyStr(reason) THEN reason[1] ELSE "No reason provided"

\* the embed send_moderation_dm builds (notification.py lines 62-108): the
\* description with its duration string, the Reason field and the Duration
\* field "Ends <t:end_time:R>", end_time given in seconds from utcnow()
ModerationDmEmbed(action_type, reason, duration) ==
    LET branch == RenderBranch(action_type)
        timed == branch \in {"banned", "timed out"} /\ Truthy(duration) /\ duration[1] > 0
    IN [fn |-> "send_moderation_dm", action_type |-> action_type,
        duration |-> duration, reason |-> reason,
        description |-> IF branch = "banned" /\ ~timed THEN "permanently banned" ELSE branch,
        duration_str |-> IF timed THEN <<format_duration(duration[1])>> ELSE <<>>,
        reason_field |-> ReasonField(reason),
        end_field |-> IF Truthy(duration) /\ Lower(action_type) \in {"timeout", "ban", "mute"}
                      THEN <<duration[1]>> ELSE <<>>]

\* the embed DMManager.send_moderation_notification builds (dm_manager.py lines
\* 317-375): action_type is compared as passed, only the timeout branch reads
\* the duration, the "Timeout Ends" field is for a timeout only
ModerationNotificationEmbed(action_type, reason, duration) ==
    LET timed == action_type = "timeout" /\ Truthy(duration)
    IN [fn |-> "send_moderation_notification", action_type |-> action_type,
        duration |-> duration, reason |-> reason,
        description |-> CASE action_type = "ban" -> "banned"
                          [] action_type = "kick" -> "kicked"
                          [] action_type = "timeout" -> "timed out"
                          [] action_type = "mute" -> "muted"
                          [] action_type = "unmute" -> "unmuted"
                          [] OTHER -> "action",
        duration_str |-> IF timed THEN <<TimeoutDurationText(duration[1])>> ELSE <<>>,
        reason_field |-> ReasonField(reason),
        end_field |-> IF Truthy(duration) /\ action_type = "timeout"
                      THEN <<duration[1]>> ELSE <<>>]

\* send_moderation_dm composes the embed of a notice
ComposeModerationDm ==
    \E at \in NoticeKinds, reason \in NoticeReasons, duration \in NoticeDurations :
       /\ composed' = ModerationDmEmbed(at, reason, duration)
       /\ rendered' = NoRender
       /\ UNCHANGED <<dmVars, appealVars>>

\* send_moderation_notification composes the embed of a notice
ComposeModerationNotification ==
    \E at \in NoticeKinds, reason \in NoticeReasons, duration \in NoticeDurations :
       /\ composed' = ModerationNotificationEmbed(at, reason, duration)
       /\ rendered' = NoRender
       /\ UNCHANGED <<dmVars, appealVars>>

Init ==
    /\ now = 0
    /\ dm_cooldowns = <<>>
    /\ lastPass = <<>>
    /\ rejects = [r \in Recipients |-> 0]
    /\ calls = EmptyBag
    /\ obs = NoObs
    /\ rendered = NoRender
    /\ composed = NoComposed
    /\ notice = NoNotice
    /\ submit = "idle"
    /\ view = NoView
    /\ handlers = EmptyBag
    /\ presses = 0
    /\ fx = NoFx
    /\ lastActor = "none"

Next ==
    \/ SendDm
    \/ SendWelcomeMessage
    \/ SendWarningNotification
    \/ SendProfileInfo
    \/ SendModerationNotification
    \/ SendModerationDm
    \/ Resume
    \/ Tick
    \/ Settle

Spec == Init /\ [][Next]_vars

\* send_dm alone, with the rejected calls counted
GateNext ==
    \/ SendDmCounting
    \/ Resume
    \/ Tick
    \/ Settle

SpecGate == Init /\ [][GateNext]_vars

ComposeNext ==
    \/ FormatDuration
    \/ FormatTimeoutDuration
    \/ ComposeModerationDm
    \/ ComposeModerationNotification

SpecCompose == Init /\ [][ComposeNext]_vars

AppealNext ==
    \/ DeliverNotice
    \/ SubmitAppeal
    \/ SubmitStep
    \/ Press
    \/ HandlerStep

SpecAppeal == Init /\ [][AppealNext]_vars

----------------------------------------------------------------------------
(* Properties *)

\* C1: a send_dm call for a recipient passes the cooldown gate when no call for
\* that recipient passed it before, or when the last pass is at least the call's
\* window ago; when the last pass is less than the window ago the call returns
\* False at once, and no send is requested.
C1_GateWindow ==
    (obs.step = "begin" /\ obs.op \in DMManagerOps) =>
        /\ ~obs.hadPass => obs.gate = "pass"
        /\ (obs.hadPass /\ obs.t - obs.prevPass >= obs.cooldown_time) => obs.gate = "pass"
        /\ (obs.hadPass /\ obs.t - obs.prevPass < obs.cooldown_time) =>
              /\ obs.gate = "reject"
              /\ obs.ended /\ obs.res = "False"
              /\ ~obs.sendReq /\ ~obs.attempted

\* a second call inside the window of an earlier pass was rejected
C1_Witness ==
    /\ obs.step = "begin" /\ obs.op \in DMManagerOps
    /\ obs.hadPass /\ obs.t > obs.prevPass /\ obs.t - obs.prevPass < obs.cooldown_time
    /\ obs.gate = "reject"

\* C2: a send_dm call that ends because the recipient opted out requested no
\* send, returns False and has not written the recipient's cooldown record.
C2_OptOutKeepsRecord ==
    (obs.ended /\ obs.outcome = "optedOut") =>
        /\ ~obs.attempted
        /\ obs.res = "False"
        /\ ~obs.wrote

\* C3: a send_dm call has written the cooldown record if and only if it requested
\* a send.
C3_WriteIffAttempt ==
    (obs.ended /\ obs.via = "send_dm") => (obs.wrote <=> obs.attempted)

\* C4: every request to the external send is made by a call whose cooldown gate
\* check allowed it, and a gate rejection returns False.
C4_SendBehindGate ==
    /\ obs.sendReq => obs.gate = "pass"
    /\ obs.gate = "reject" => (obs.ended /\ obs.res = "False")

\* C5: every composer returns True or False, no exception escapes, True is
\* returned only when the external send succeeded, and a suspended call can
\* always run on.
C5_BooleanResult ==
    /\ obs.ended => /\ obs.res \in {"True", "False"}
                    /\ obs.res = "True" => obs.sendOut = "ok"
    /\ \A c \in BagToSet(calls) : Resumptions(c) # {}

\* a send that raised an error other than Forbidden ended the call with False
C5_Witness ==
    obs.ended /\ obs.sendOut = "error" /\ obs.res = "False"

\* C6: when the preference lookup raises, send_dm goes on to request the send
\* exactly as it does when there is no storage; when the stat increment raises,
\* send_dm returns True exactly as it does when there is no storage.
C6_StorageFailureIgnored ==
    /\ obs.prefOut = "raise" =>
          /\ obs.sendReq /\ ~obs.ended
          /\ \E k \in FromPrefs("user", "absent") :
                k.pc = "send" /\ k.sendReq = obs.sendReq /\ k.res = obs.res
    /\ obs.statOut = "raise" =>
          /\ obs.ended /\ obs.res = "True" /\ obs.sendOut = "ok"
          /\ \E k \in FromStat("absent") : k.pc = "end" /\ k.res = obs.res

\* the preference lookup raised and the send was requested all the same
C6_Witness ==
    obs.prefOut = "raise" /\ obs.sendReq

\* C10: the duration text is the duration in the largest unit not above it,
\* integer-divided, the unit name singular for the value 1 and plural otherwise.
C10_DurationText ==
    rendered.fn # "none" =>
        LET d == rendered.seconds
            unit == IF d >= Day THEN Day ELSE IF d >= Hour THEN Hour
                    ELSE IF d >= Minute THEN Minute ELSE 1
            name == IF unit = Day THEN <<"day", "days">>
                    ELSE IF unit = Hour THEN <<"hour", "hours">>
                    ELSE IF unit = Minute THEN <<"minute", "minutes">>
                    ELSE <<"second", "seconds">>
        IN rendered.text = <<d \div unit, IF d \div unit = 1 THEN name[1] ELSE name[2]>>

\* C7: a step that serves an Approve or Deny press of an actor other than the
\* designated moderator changes nothing but the count of private rejection
\* responses: no reversal, no notification, the buttons stay as they are; and a
\* callback of such an actor only ever awaits the rejection response.
C7_NonDesignatedNoEffect ==
    [][(view.exists /\ lastActor' \in Actors /\ lastActor' # view.mod_id) =>
          /\ view' = view
          /\ notice' = notice
          /\ submit' = submit
          /\ fx' \in {fx, [fx EXCEPT !.rejected = @ + 1]}
          /\ \A h \in BagToSet(handlers') : h.actor # view.mod_id => h.pc = "reject"]_vars

\* an actor other than the designated moderator got the rejection response after
\* the designated moderator's press was acknowledged
C7_Witness ==
    /\ view.exists /\ lastActor \in Actors /\ lastActor # view.mod_id
    /\ fx.rejected >= 1
    /\ fx.acked >= 1

\* C8: at most one decision is applied per appeal: the action is reversed at
\* most once and the appellant gets at most one decision notification.
C8_AtMostOneDecision ==
    /\ fx.timeout + fx.mute + fx.deafen <= 1
    /\ fx.notified <= 1

\* C9: the reversal call an Approve by the designated moderator makes is the one
\* of the kind the notice was rendered for, under the same case-normalisation:
\* timeout, voice mute and voice deafen are undone, nothing else is.
C9_ReversalFollowsRenderedKind ==
    \A h \in BagToSet(handlers) :
        (h.btn = "approve" /\ h.actor = view.mod_id) =>
            h.undo = CASE Lower(notice.action_type) = "timeout" -> "timeout"
                       [] Lower(notice.action_type) = "voice_mute" -> "mute"
                       [] Lower(notice.action_type) = "voice_deafen" -> "deafen"
                       [] OTHER -> "none"

\* C11: the window the gate applies to a call that finds a record is 5 seconds,
\* plus 2 if the message text is longer than 200 characters, plus 1 if an embed
\* is given; it is one of 5, 6, 7, 8, a text of exactly 200 characters gets no
\* surcharge, the gate decides by that window, and the window is monotonic:
\* window(long, embed) >= window(long, no embed) >= window(short, no embed).
C11_WindowValue ==
    /\ (obs.step = "begin" /\ obs.op \in DMManagerOps /\ obs.hadPass) =>
          LET window == 5 + (IF obs.len > 200 THEN 2 ELSE 0) + (IF obs.embed THEN 1 ELSE 0)
          IN /\ obs.cooldown_time = window
             /\ window \in {5, 6, 7, 8}
             /\ obs.len = 200 => window \in {5, 6}
             /\ obs.gate = "reject" <=> obs.t - obs.prevPass < window
    /\ \A long \in {l \in MsgLens : l > 200}, short \in {l \in MsgLens : l <= 200} :
          /\ CooldownTime(long, TRUE) >= CooldownTime(long, FALSE)
          /\ CooldownTime(long, FALSE) >= CooldownTime(short, FALSE)
          /\ <<CooldownTime(long, TRUE), CooldownTime(long, FALSE), CooldownTime(short, FALSE)>>
                = <<8, 7, 5>>

\* a text of exactly 200 characters without an embed passed the gate 5 seconds
\* after the last pass
C11_Witness ==
    /\ obs.step = "begin" /\ obs.op = "send_dm" /\ obs.hadPass
    /\ obs.len = 200 /\ ~obs.embed
    /\ obs.t - obs.prevPass = 5
    /\ obs.gate = "pass"

\* C12: under every interleaving of send_dm calls the check-and-record of the
\* gate loses no update: the stored timestamp of a recipient is always the time
\* of the last call that passed the gate for it, also while calls are suspended
\* at awaits and when they run on; a call that passes stores its own time; a
\* call that starts within its window of the last pass is rejected, requests no
\* send and leaves the stored timestamp; and only a call that passed the gate
\* requests the external send.
C12_NoLostUpdate ==
    /\ DOMAIN dm_cooldowns = DOMAIN lastPass
    /\ \A r \in DOMAIN lastPass : dm_cooldowns[r] = lastPass[r]
    /\ (obs.step = "begin" /\ obs.op \in DMManagerOps) =>
          /\ obs.gate = "pass" =>
                (obs.r \in DOMAIN dm_cooldowns /\ dm_cooldowns[obs.r] = obs.t)
          /\ (obs.hadPass /\ obs.t - obs.prevPass < obs.cooldown_time) =>
                /\ obs.gate = "reject"
                /\ ~obs.sendReq
                /\ dm_cooldowns[obs.r] = obs.prevPass
    /\ (obs.via = "send_dm" /\ obs.sendReq) => obs.wrote
    /\ \A c \in BagToSet(calls) :
          (c.via = "send_dm" /\ c.wrote) => c.r \in DOMAIN dm_cooldowns

\* a second call for the recipient started at the very time of the first call's
\* pass, while the first call was suspended before its send, and was rejected
C12_Witness ==
    /\ obs.step = "begin" /\ obs.op \in DMManagerOps
    /\ obs.hadPass /\ obs.t = obs.prevPass
    /\ obs.gate = "reject"
    /\ \E c \in BagToSet(calls) :
          c.via = "send_dm" /\ c.r = obs.r /\ c.wrote /\ c.pc \in {"fetch", "prefs"}
    /\ dm_cooldowns[obs.r] = obs.prevPass

\* C13: a call rejected by the gate leaves the cooldown map as it is, so that
\* rejected calls never extend the window: a call for a recipient at least its
\* window after the recipient's last pass passes the gate, whether or not calls
\* for the recipient were rejected since that pass.
C13_RejectKeepsWindow ==
    [][/\ (obs'.step = "begin" /\ obs'.gate = "reject") =>
             /\ dm_cooldowns' = dm_cooldowns
             /\ lastPass' = lastPass
       /\ (obs'.step = "begin" /\ obs'.op \in DMManagerOps /\ obs'.r \in DOMAIN lastPass) =>
             /\ obs'.hadPass /\ obs'.prevPass = lastPass[obs'.r]
             /\ obs'.t - lastPass[obs'.r] >= obs'.cooldown_time => obs'.gate = "pass"]_vars

\* a call passed the gate exactly its window after the last pass, with
\* MaxRejects calls for the same recipient rejected in between
C13_Witness ==
    /\ obs.step = "begin" /\ obs.op \in DMManagerOps
    /\ obs.hadPass /\ obs.rejects = MaxRejects
    /\ obs.t - obs.prevPass = obs.cooldown_time
    /\ obs.gate = "pass"

\* C14: in a moderation notice, for every action kind and every duration
\* (absent, zero, positive, negative), the duration is rendered if and only if
\* it is present and the kind is timeout, ban or mute, and then both as the
\* duration string of the description and as the end-timestamp field, never
\* one without the other; a ban without a duration has no duration field, and
\* the reason field reads "No reason provided" when the reason is absent.
C14_DurationRendered ==
    composed.fn # "none" =>
        LET kind == Lower(composed.action_type)
            shown == composed.duration # <<>> /\ kind \in {"timeout", "ban", "mute"}
        IN /\ composed.duration_str # <<>> <=> shown
           /\ composed.end_field # <<>> <=> shown
           /\ composed.duration_str # <<>> <=> composed.end_field # <<>>
           /\ (kind = "ban" /\ composed.duration = <<>>) =>
                 /\ composed.end_field = <<>>
                 /\ composed.reason = <<>> => composed.reason_field = "No reason provided"

\* C15: when the appeal has been handled with no failure of an external call:
\* if the notice was sent with the moderator's identity (as moderator or as
\* moderator_id) and that moderator is resolvable, exactly one appeal message
\* with the Approve/Deny view went to the moderator, that identity is the one
\* the view lets decide, and the appellant got exactly one confirmation and no
\* error response; if the moderator is not resolvable, nothing went to a
\* moderator and the appellant got exactly one error response.
C15_AppealReachesModerator ==
    (submit = "done" /\ fx.faults = 0) =>
        LET identity == IF notice.moderator # "none" THEN notice.moderator
                        ELSE notice.moderator_id
        IN IF identity # "none" /\ fx.unresolved = 0
           THEN /\ fx.appeals = 1
                /\ view.exists /\ view.mod_id = identity
                /\ fx.confirmed = 1 /\ fx.errors = 0
           ELSE /\ fx.appeals = 0 /\ ~view.exists
                /\ fx.confirmed = 0 /\ fx.errors = 1

====
